---- MODULE Spec2Model ----
(***************************************************************************)
(* A model of src-tauri/src/commands/file.rs: the directory watch task     *)
(* (watch_directory) and the rotating log appender (append_log).           *)
(*                                                                         *)
(* A path is a tuple of one-character strings, one per byte; the pseudo    *)
(* byte InvalidByte stands for a byte that is not valid UTF-8.  A file is  *)
(* <<>> when it does not exist and <<data>> when it does, data being the   *)
(* tuple of its bytes.  The rotation chain of the one log path modelled is *)
(* a function from slot numbers to files: slot 0 is path, slot i is path.i *)
(***************************************************************************)
EXTENDS Integers, Sequences, FiniteSets, TLC

VARIABLES
    watchRet,   \* what watch_directory returned to its caller: "none" before the call
    pc,         \* position of the spawned thread
    setupErr,   \* the setup failure the thread printed, "none" if none
    chan,       \* the mpsc channel between the watcher (tx) and the loop (rx)
    closed,     \* TRUE once every sender of the channel is gone
    nSent,      \* number of items the watcher has sent so far
    handled,    \* items the loop has received, in the order of rx.recv()
    notifs,     \* calls of window.emit("spec-files-changed", ..), in order
    fs,         \* the rotation chain: slot -> file
    last,       \* the last append_log call: arguments, pre-state, what it did
    nCalls,     \* number of append_log calls made so far
    nFaults,    \* number of those calls that met a fault other than a refused rename
    cfg,        \* the (max_bytes, max_files) every call of a SpecSeq run uses
    hist,       \* the lines of the calls that returned Ok, in order, and
                \* whether a rename was ever refused
    chain0,     \* the chain as two concurrent calls found it
    dir,        \* the directory during concurrent calls: slot -> inode, 0 if none
    inodes,     \* inode -> the bytes it holds
    callers     \* each concurrent call: its line, its position, its open file

watchVars == <<watchRet, pc, setupErr, chan, closed, nSent, handled, notifs>>
logVars == <<fs, last, nCalls, nFaults, cfg, hist>>
concVars == <<chain0, dir, inodes, callers>>
vars == <<watchRet, pc, setupErr, chan, closed, nSent, handled, notifs,
          fs, last, nCalls, nFaults, cfg, hist, chain0, dir, inodes, callers>>

(***************************************************************************)
(* Bounds of the model.                                                    *)
(***************************************************************************)
MaxEvents == 2      \* items the watcher sends in one run
MaxFiles == 4       \* largest max_files argument
MaxSeqCalls == 3    \* append_log calls in one run of SpecSeq
MaxFaults == 1      \* calls of one run of SpecSeq that meet a fault other than a refused rename

(***************************************************************************)
(* Paths and raw events.                                                   *)
(***************************************************************************)
InvalidByte == "xFF"

pYaml == <<"a", ".", "y", "a", "m", "l">>
pYml == <<"b", ".", "y", "m", "l">>
pJson == <<"c", ".", "j", "s", "o", "n">>
pTxt == <<"n", ".", "t", "x", "t">>
pUpper == <<"d", ".", "Y", "M", "L">>
pBak == <<"e", ".", "y", "m", "l", "~">>
pNonUtf8 == <<InvalidByte, ".", "y", "a", "m", "l">>

\* the path lists a raw event may carry
PathLists ==
    { <<>>, <<pYaml>>, <<pTxt>>, <<pNonUtf8>>, <<pUpper, pBak>>,
      <<pJson, pTxt, pYaml>>, <<pNonUtf8, pYml>> }

\* notify::EventKind, the payload of each variant dropped
EventKinds == {"Any", "Access", "Create", "Modify", "Remove", "Other"}

\* what rx.recv() yields while the channel is open: Ok(event) or Err(error)
RawItems ==
    [res : {"ok"}, kind : EventKinds, paths : PathLists]
        \cup [res : {"err"}, kind : {"Other"}, paths : {<<>>}]

(***************************************************************************)
(* The filter of the watch loop.                                           *)
(***************************************************************************)
\* str::ends_with
EndsWith(s, suffix) ==
    /\ Len(s) >= Len(suffix)
    /\ SubSeq(s, Len(s) - Len(suffix) + 1, Len(s)) = suffix

\* Path::to_str: Some(s) as <<s>>, None as <<>>
ToStr(p) ==
    IF \A k \in 1..Len(p) : p[k] # InvalidByte THEN <<p>> ELSE <<>>

\* matches!(event.kind, Create(_) | Modify(_) | Remove(_))
IsRelevantKindNoRemove(kind) == kind \in {"Create", "Modify"}
IsRelevantKind(kind) == kind \in {"Create", "Modify", "Remove"}

\* the closure of .filter(..)
HasSpecExtensionAnyCase(s) ==
    \/ EndsWith(s, <<".", "y", "a", "m", "l">>) \/ EndsWith(s, <<".", "Y", "A", "M", "L">>)
    \/ EndsWith(s, <<".", "y", "m", "l">>) \/ EndsWith(s, <<".", "Y", "M", "L">>)
    \/ EndsWith(s, <<".", "j", "s", "o", "n">>) \/ EndsWith(s, <<".", "J", "S", "O", "N">>)
HasSpecExtension(s) ==
    \/ EndsWith(s, <<".", "y", "a", "m", "l">>)
    \/ EndsWith(s, <<".", "y", "m", "l">>)
    \/ EndsWith(s, <<".", "j", "s", "o", "n">>)

\* event.paths.iter().filter_map(|p| p.to_str().map(String::from))
RECURSIVE FilterMapToStr(_)
FilterMapToStr(paths) ==
    IF paths = <<>> THEN <<>>
    ELSE ToStr(Head(paths)) \o FilterMapToStr(Tail(paths))

\* .filter(|p| ..).collect()
RECURSIVE FilterExt(_)
FilterExt(strs) ==
    IF strs = <<>> THEN <<>>
    ELSE (IF HasSpecExtension(Head(strs)) THEN <<Head(strs)>> ELSE <<>>)
             \o FilterExt(Tail(strs))

FilteredPaths(paths) == FilterExt(FilterMapToStr(paths))

\* the emits one received item causes: none or one payload
Emits(item) ==
    IF item.res = "ok" /\ IsRelevantKind(item.kind) /\ FilteredPaths(item.paths) # <<>>
    THEN <<FilteredPaths(item.paths)>>
    ELSE <<>>

\* rx.recv() on a non-empty channel: the index of the item it takes
RecvIndexNewest(c) == Len(c)
RecvIndex(c) == 1

RemoveAt(s, k) == SubSeq(s, 1, k - 1) \o SubSeq(s, k + 1, Len(s))

(***************************************************************************)
(* watch_directory and its thread.                                         *)
(***************************************************************************)
WatchInit ==
    /\ watchRet = "none"
    /\ pc = "unspawned"
    /\ setupErr = "none"
    /\ chan = <<>>
    /\ closed = FALSE
    /\ nSent = 0
    /\ handled = <<>>
    /\ notifs = <<>>

\* the command: spawn the thread, return Ok(())
WatchDirectory ==
    /\ pc = "unspawned"
    /\ pc' = "create"
    /\ watchRet' = "Ok"
    /\ UNCHANGED <<setupErr, chan, closed, nSent, handled, notifs>>

\* where the thread goes when a setup step fails
AfterSetupFailureContinue(next) == next
AfterSetupFailure(next) == "exited"

\* notify::recommended_watcher(tx)
CreateWatcher ==
    /\ pc = "create"
    /\ \E ok \in BOOLEAN :
          IF ok
          THEN pc' = "register" /\ UNCHANGED setupErr
          ELSE pc' = AfterSetupFailure("register") /\ setupErr' = "create"
    /\ UNCHANGED <<watchRet, chan, closed, nSent, handled, notifs>>

\* watcher.watch(path, Recursive)
RegisterPath ==
    /\ pc = "register"
    /\ \E ok \in BOOLEAN :
          IF ok
          THEN pc' = "loop" /\ UNCHANGED setupErr
          ELSE pc' = AfterSetupFailure("loop") /\ setupErr' = "register"
    /\ UNCHANGED <<watchRet, chan, closed, nSent, handled, notifs>>

\* the watcher's own thread sends an event or an error through tx
SourceSendFrom(items) ==
    /\ pc = "loop"
    /\ ~closed
    /\ nSent < MaxEvents
    /\ \E item \in items :
          chan' = Append(chan, [seq |-> nSent + 1, res |-> item.res,
                                kind |-> item.kind, paths |-> item.paths])
    /\ nSent' = nSent + 1
    /\ UNCHANGED <<watchRet, pc, setupErr, closed, handled, notifs>>

SourceSend == SourceSendFrom(RawItems)

\* one item for each way a turn of the loop can go: an error, an event of a
\* kind that is ignored, an event whose paths are all filtered out, and two
\* events that are forwarded
LoopItems ==
    { [res |-> "err", kind |-> "Other", paths |-> <<>>],
      [res |-> "ok", kind |-> "Access", paths |-> <<pYaml>>],
      [res |-> "ok", kind |-> "Create", paths |-> <<pTxt>>],
      [res |-> "ok", kind |-> "Modify", paths |-> <<pJson, pTxt, pYaml>>],
      [res |-> "ok", kind |-> "Remove", paths |-> <<pNonUtf8, pYml>>] }

SourceSendLoopItem == SourceSendFrom(LoopItems)

\* the sender side goes away
SourceClose ==
    /\ pc = "loop"
    /\ ~closed
    /\ closed' = TRUE
    /\ UNCHANGED <<watchRet, pc, setupErr, chan, nSent, handled, notifs>>

\* where the loop goes after Ok(Err(e)): eprintln!, then the next turn
AfterDeliveryErrorBreak == "exited"
AfterDeliveryError == "loop"

\* where the loop goes after window.emit: `let _ =` drops its result
AfterEmitStopOnFailure(delivered) == IF delivered THEN "loop" ELSE "exited"
AfterEmit(delivered) == "loop"

\* one turn of the loop on Ok(Ok(event)) or Ok(Err(e))
LoopRecv ==
    /\ pc = "loop"
    /\ chan # <<>>
    /\ LET k == RecvIndex(chan)
           item == chan[k]
           out == Emits(item)
       IN /\ chan' = RemoveAt(chan, k)
          /\ handled' = Append(handled, item)
          /\ IF out = <<>>
             THEN /\ UNCHANGED notifs
                  /\ pc' = IF item.res = "err" THEN AfterDeliveryError ELSE "loop"
             ELSE \E delivered \in BOOLEAN :
                     /\ notifs' = Append(notifs, [ev |-> item.seq, paths |-> out[1],
                                                  delivered |-> delivered])
                     /\ pc' = AfterEmit(delivered)
    /\ UNCHANGED <<watchRet, setupErr, closed, nSent>>

\* rx.recv() is Err(_) once the channel is empty and disconnected: break
LoopBreak ==
    /\ pc = "loop"
    /\ chan = <<>>
    /\ closed
    /\ pc' = "exited"
    /\ UNCHANGED <<watchRet, setupErr, chan, closed, nSent, handled, notifs>>

(***************************************************************************)
(* Files and the rotation chain of append_log.                             *)
(***************************************************************************)
NL == "\n"
NoFile == <<>>
File(data) == <<data>>
Exists(f) == f # NoFile
Data(f) == f[1]
\* fs::metadata(..).len()
Size(f) == Len(f[1])

\* slot MaxFiles lies beyond every chain a call can rotate
Slots == 0..MaxFiles
EmptyChain == [s \in Slots |-> NoFile]

Digits == <<"1", "2", "3", "4", "5", "6", "7", "8", "9">>
\* what a backup file holds before the first call of a run
OldData(s) == <<"r", Digits[s], NL>>
\* what the live file may hold before the first call of a run
LiveData == { <<>>, <<"p", NL>>, <<"q", "q", NL>> }

\* the chains a run of Spec may start from
InitChains ==
    { c \in [Slots -> {NoFile} \cup {File(d) : d \in LiveData}
                               \cup {File(OldData(s)) : s \in 1..MaxFiles}] :
        /\ c[0] \in {NoFile} \cup {File(d) : d \in LiveData}
        /\ \A s \in 1..MaxFiles : c[s] \in {NoFile, File(OldData(s))} }

\* the arguments of a call
Lines == { <<"x">>, <<"y", "y">> }
MaxBytesSet == {0, 2, 3}
MaxFilesSet == 0..MaxFiles
Faults == {"none", "dir", "open", "write"}

NoCfg == [fixed |-> FALSE, max_bytes |-> 0, max_files |-> 0]

NoHist == [lines |-> <<>>, refused |-> FALSE]

NoCall ==
    [op |-> "none", line |-> <<>>, max_bytes |-> 0, max_files |-> 0,
     pre |-> EmptyChain, fault |-> "none", rotate |-> FALSE,
     visited |-> <<>>, renames |-> <<>>, ret |-> "none"]

\* if log_path.exists() { if let Ok(meta) = fs::metadata(..) { if meta.len() >= max_bytes
NeedsRotationStrict(f, max_bytes) == Exists(f) /\ Size(f) > max_bytes
NeedsRotation(f, max_bytes) == Exists(f) /\ Size(f) >= max_bytes

\* (1..max_files).rev() as the sequence of the values i takes
LoopIndicesAscending(max_files) == [k \in 1..(max_files - 1) |-> k]
LoopIndicesInclusive(max_files) == [k \in 1..max_files |-> max_files + 1 - k]
LoopIndices(max_files) == [k \in 1..(max_files - 1) |-> max_files - k]

\* the slot of `from`: path itself when i == 1, path.(i-1) otherwise
FromSlot(i) == IF i = 1 THEN 0 ELSE i - 1
\* the slot of `to`: path.i
ToSlot(i) == i

\* fs::rename(from, to) that succeeds: `to` is replaced, `from` is gone
RenameKeepsSource(chain, from, to) == [chain EXCEPT ![to] = chain[from]]
Rename(chain, from, to) == [chain EXCEPT ![to] = chain[from], ![from] = NoFile]

\* what a refused rename does to the loop: TRUE if the loop goes on
ContinuesAfterRenameErrorNot == FALSE
ContinuesAfterRenameError == TRUE

\* the for loop over the indices still to visit; failing is the set of the
\* values of i at which fs::rename is refused.  st.stop is never set by the
\* code: `let _ =` drops the error.  Each rename tried is recorded with its
\* outcome (ok) and with whether its target existed when it was tried (over)
RECURSIVE RotateLoop(_, _, _)
RotateLoop(st, indices, failing) ==
    IF indices = <<>> \/ st.stop THEN st
    ELSE LET i == Head(indices)
             from == FromSlot(i)
             to == ToSlot(i)
             seen == [st EXCEPT !.visited = Append(@, i)]
         IN IF ~Exists(st.chain[from])
            THEN RotateLoop(seen, Tail(indices), failing)
            ELSE IF i \in failing
            THEN RotateLoop([seen EXCEPT
                                !.renames = Append(@, [from |-> from, to |-> to, ok |-> FALSE,
                                                       over |-> Exists(st.chain[to])]),
                                !.stop = ~ContinuesAfterRenameError],
                            Tail(indices), failing)
            ELSE RotateLoop([seen EXCEPT
                                !.chain = Rename(@, from, to),
                                !.renames = Append(@, [from |-> from, to |-> to, ok |-> TRUE,
                                                       over |-> Exists(st.chain[to])])],
                            Tail(indices), failing)

\* lines 65-82: the rotation, if it is needed
Rotation(chain, max_bytes, max_files, failing) ==
    LET st0 == [chain |-> chain, visited |-> <<>>, renames |-> <<>>, stop |-> FALSE]
    IN IF NeedsRotation(chain[0], max_bytes)
       THEN [rotate |-> TRUE] @@ RotateLoop(st0, LoopIndices(max_files), failing)
       ELSE [rotate |-> FALSE] @@ st0

\* OpenOptions::new().create(true).append(true).open(..): the file exists afterwards
OpenAppend(f) == IF Exists(f) THEN f ELSE File(<<>>)

\* writeln!(file, "{}", line): the bytes of the line, then a newline
LineBytes(line) == line \o <<NL>>

\* a write of the first n bytes to a file opened for append
WriteAtEnd(f, bytes, n) == File(Data(f) \o SubSeq(bytes, 1, n))

\* does create_dir_all's error end the call
DirErrorIgnored(fault) == FALSE
DirErrorAborts(fault) == fault = "dir"

\* the whole call.  fault names the step the filesystem refuses: creating the
\* parent directory, opening the file, or the write, which then stops after
\* `written` bytes
AppendResult(chain, line, max_bytes, max_files, failing, fault, written) ==
    LET rot == Rotation(chain, max_bytes, max_files, failing)
        opened == [rot.chain EXCEPT ![0] = OpenAppend(@)]
        bytes == LineBytes(line)
        call == [op |-> "append", line |-> line, max_bytes |-> max_bytes,
                 max_files |-> max_files, pre |-> chain, fault |-> fault,
                 rotate |-> FALSE, visited |-> <<>>, renames |-> <<>>, ret |-> "Err"]
        ran == [call EXCEPT !.rotate = rot.rotate, !.visited = rot.visited,
                            !.renames = rot.renames]
    IN IF DirErrorAborts(fault)
       THEN [chain |-> chain, call |-> call]
       ELSE IF rot.stop
       THEN [chain |-> rot.chain, call |-> ran]
       ELSE IF fault = "open"
       THEN [chain |-> rot.chain, call |-> ran]
       ELSE IF fault = "write"
       THEN [chain |-> [opened EXCEPT ![0] = WriteAtEnd(@, bytes, written)], call |-> ran]
       ELSE [chain |-> [opened EXCEPT ![0] = WriteAtEnd(@, bytes, Len(bytes))],
             call |-> [ran EXCEPT !.ret = "Ok"]]

LogInit ==
    /\ fs \in InitChains
    /\ last = NoCall
    /\ nCalls = 0
    /\ nFaults = 0
    /\ cfg = NoCfg
    /\ hist = NoHist

\* the values of i at which a call can reach fs::rename at all
RenameSteps(chain, max_bytes, max_files, fault) ==
    IF fault # "dir" /\ NeedsRotation(chain[0], max_bytes)
    THEN 1..(max_files - 1)
    ELSE {}

\* one call of the command append_log
AppendLog(line, max_bytes, max_files, faults) ==
    /\ \E fault \in faults :
       \E failing \in SUBSET RenameSteps(fs, max_bytes, max_files, fault),
          written \in IF fault = "write" THEN 0..Len(line) ELSE {0} :
          LET r == AppendResult(fs, line, max_bytes, max_files, failing, fault, written)
          IN /\ fs' = r.chain
             /\ last' = r.call
             /\ nFaults' = IF fault = "none" THEN nFaults ELSE nFaults + 1
             /\ hist' = [lines |-> IF r.call.ret = "Ok"
                                   THEN Append(hist.lines, line)
                                   ELSE hist.lines,
                         refused |-> \/ hist.refused
                                     \/ \E k \in 1..Len(r.call.renames) :
                                           ~r.call.renames[k].ok]
    /\ nCalls' = nCalls + 1
    /\ UNCHANGED cfg

\* a call with any arguments, on a chain as the run found it
AppendAny ==
    /\ ~cfg.fixed
    /\ last.op = "none"
    /\ \E line \in Lines, max_bytes \in MaxBytesSet, max_files \in MaxFilesSet :
          AppendLog(line, max_bytes, max_files, Faults)
    /\ UNCHANGED <<watchVars, concVars>>

\* a call of a run in which every call has the same max_bytes and max_files
AppendFixed ==
    /\ cfg.fixed
    /\ nCalls < MaxSeqCalls
    /\ \E line \in Lines :
          AppendLog(line, cfg.max_bytes, cfg.max_files,
                    IF nFaults < MaxFaults THEN Faults ELSE {"none"})
    /\ UNCHANGED <<watchVars, concVars>>

(***************************************************************************)
(* Two calls of append_log on one path at the same time.  Each filesystem  *)
(* call of lines 65-91 is one step.  A file is an inode: a rename moves    *)
(* the inode to another name and an open file keeps writing to its inode.  *)
(***************************************************************************)
Callers == {1, 2}
Inodes == 1..(MaxFiles + 1 + Cardinality(Callers))
\* the inode of the file slot s holds at the start, the inode caller p creates
InodeOfSlot(s) == s + 1
NewInode(p) == MaxFiles + 1 + p

\* chains two calls can find: path absent or with some content, and the
\* older files path.1 .. path.j without a gap
ConcChains ==
    { c \in InitChains :
        /\ \A s \in 2..MaxFiles : Exists(c[s]) => Exists(c[s - 1])
        /\ Exists(c[1]) => Exists(c[0]) }

IdleCaller == [pc |-> "idle", line |-> <<>>, after |-> FALSE, rotate |-> FALSE,
               k |-> 0, renamed |-> 0, fd |-> 0, ret |-> "none"]
NoDir == [s \in Slots |-> 0]
NoInodes == [n \in Inodes |-> <<>>]

ConcIdle ==
    /\ chain0 = EmptyChain
    /\ dir = NoDir
    /\ inodes = NoInodes
    /\ callers = [p \in Callers |-> IdleCaller]

ConcInit ==
    /\ chain0 \in ConcChains
    /\ dir = [s \in Slots |-> IF Exists(chain0[s]) THEN InodeOfSlot(s) ELSE 0]
    /\ inodes = [n \in Inodes |->
                   IF n - 1 \in Slots /\ Exists(chain0[n - 1]) THEN Data(chain0[n - 1]) ELSE <<>>]
    /\ callers \in { f \in [Callers -> [pc : {"idle"}, line : Lines, after : {FALSE},
                                        rotate : {FALSE}, k : {0}, renamed : {0},
                                        fd : {0}, ret : {"none"}]] :
                       f[1].line # f[2].line }

\* the chain as the directory and the inodes show it
ConcChain == [s \in Slots |-> IF dir[s] = 0 THEN NoFile ELSE File(inodes[dir[s]])]

\* append_log takes no lock and waits for nothing: a call starts whatever
\* another call is doing
StartsOnlyWhenAlone(p) == \A q \in Callers \ {p} : callers[q].pc \in {"idle", "done"}
MayStart(p) == TRUE

\* the command is called (create_dir_all finds the directory)
ConcStart(p) ==
    /\ callers[p].pc = "idle"
    /\ MayStart(p)
    /\ callers' = [callers EXCEPT
                     ![p].pc = "exists",
                     ![p].after = \A q \in Callers \ {p} : callers[q].pc = "done"]
    /\ UNCHANGED <<chain0, dir, inodes>>

\* line 65: log_path.exists()
ConcExists(p) ==
    /\ callers[p].pc = "exists"
    /\ callers' = [callers EXCEPT ![p].pc = IF dir[0] # 0 THEN "metadata" ELSE "open"]
    /\ UNCHANGED <<chain0, dir, inodes>>

\* the position after turn k of the loop: the next turn, or the open
AfterTurn(k, max_files) ==
    IF k < Len(LoopIndices(max_files)) THEN [pc |-> "from", k |-> k + 1]
    ELSE [pc |-> "open", k |-> 0]

\* lines 66-67: fs::metadata(..) and the comparison; metadata fails if path
\* has been renamed away since line 65
ConcMetadata(p) ==
    /\ callers[p].pc = "metadata"
    /\ LET full == dir[0] # 0 /\ NeedsRotation(File(inodes[dir[0]]), cfg.max_bytes)
           nxt == AfterTurn(0, cfg.max_files)
       IN callers' = [callers EXCEPT
                        ![p].rotate = full,
                        ![p].pc = IF full THEN nxt.pc ELSE "open",
                        ![p].k = IF full THEN nxt.k ELSE 0]
    /\ UNCHANGED <<chain0, dir, inodes>>

\* line 76: Path::new(&from).exists()
ConcFromExists(p) ==
    /\ callers[p].pc = "from"
    /\ LET i == LoopIndices(cfg.max_files)[callers[p].k]
           nxt == AfterTurn(callers[p].k, cfg.max_files)
       IN callers' = [callers EXCEPT
                        ![p].pc = IF dir[FromSlot(i)] # 0 THEN "rename" ELSE nxt.pc,
                        ![p].k = IF dir[FromSlot(i)] # 0 THEN @ ELSE nxt.k]
    /\ UNCHANGED <<chain0, dir, inodes>>

\* line 77: let _ = fs::rename(&from, &to); it fails, and is ignored, if
\* `from` has been renamed away since line 76
ConcRename(p) ==
    /\ callers[p].pc = "rename"
    /\ LET i == LoopIndices(cfg.max_files)[callers[p].k]
           from == FromSlot(i)
           to == ToSlot(i)
           nxt == AfterTurn(callers[p].k, cfg.max_files)
       IN /\ dir' = IF dir[from] # 0
                    THEN [dir EXCEPT ![to] = dir[from], ![from] = 0]
                    ELSE dir
          /\ callers' = [callers EXCEPT
                           ![p].pc = nxt.pc,
                           ![p].k = nxt.k,
                           ![p].renamed = IF dir[from] # 0 THEN @ + 1 ELSE @]
    /\ UNCHANGED <<chain0, inodes>>

\* lines 85-89: open with create and append
ConcOpen(p) ==
    /\ callers[p].pc = "open"
    /\ dir' = IF dir[0] = 0 THEN [dir EXCEPT ![0] = NewInode(p)] ELSE dir
    /\ callers' = [callers EXCEPT ![p].pc = "line", ![p].fd = dir'[0]]
    /\ UNCHANGED <<chain0, inodes>>

\* line 90: writeln!(file, "{}", line) on a File writes twice, the line and
\* then the newline, each at the end of the file as it is then
ConcWriteLine(p) ==
    /\ callers[p].pc = "line"
    /\ inodes' = [inodes EXCEPT ![callers[p].fd] = @ \o callers[p].line]
    /\ callers' = [callers EXCEPT ![p].pc = "newline"]
    /\ UNCHANGED <<chain0, dir>>

ConcWriteNewline(p) ==
    /\ callers[p].pc = "newline"
    /\ inodes' = [inodes EXCEPT ![callers[p].fd] = @ \o <<NL>>]
    /\ callers' = [callers EXCEPT ![p].pc = "done", ![p].ret = "Ok"]
    /\ UNCHANGED <<chain0, dir>>

ConcStep(p) ==
    \/ ConcStart(p)
    \/ ConcExists(p)
    \/ ConcMetadata(p)
    \/ ConcFromExists(p)
    \/ ConcRename(p)
    \/ ConcOpen(p)
    \/ ConcWriteLine(p)
    \/ ConcWriteNewline(p)

(***************************************************************************)
(* Specifications.                                                         *)
(***************************************************************************)
\* the watch task alone
InitWatch ==
    /\ WatchInit
    /\ fs = EmptyChain
    /\ last = NoCall
    /\ nCalls = 0
    /\ nFaults = 0
    /\ cfg = NoCfg
    /\ hist = NoHist
    /\ ConcIdle
NextWatch ==
    \/ WatchDirectory /\ UNCHANGED <<logVars, concVars>>
    \/ CreateWatcher /\ UNCHANGED <<logVars, concVars>>
    \/ RegisterPath /\ UNCHANGED <<logVars, concVars>>
    \/ SourceSend /\ UNCHANGED <<logVars, concVars>>
    \/ SourceClose /\ UNCHANGED <<logVars, concVars>>
    \/ LoopRecv /\ UNCHANGED <<logVars, concVars>>
    \/ LoopBreak /\ UNCHANGED <<logVars, concVars>>
SpecWatch == InitWatch /\ [][NextWatch]_vars

\* the thread is scheduled: rx.recv() returns once an item is in the channel
\* or the channel is empty and disconnected
NextWatchFair ==
    \/ WatchDirectory /\ UNCHANGED <<logVars, concVars>>
    \/ CreateWatcher /\ UNCHANGED <<logVars, concVars>>
    \/ RegisterPath /\ UNCHANGED <<logVars, concVars>>
    \/ SourceSendLoopItem /\ UNCHANGED <<logVars, concVars>>
    \/ SourceClose /\ UNCHANGED <<logVars, concVars>>
    \/ LoopRecv /\ UNCHANGED <<logVars, concVars>>
    \/ LoopBreak /\ UNCHANGED <<logVars, concVars>>
SpecWatchFair ==
    /\ InitWatch
    /\ [][NextWatchFair]_vars
    /\ WF_vars(LoopRecv /\ UNCHANGED <<logVars, concVars>>)
    /\ WF_vars(LoopBreak /\ UNCHANGED <<logVars, concVars>>)

\* one call of append_log, with any arguments, on any chain of InitChains
InitLog == WatchInit /\ LogInit /\ ConcIdle
NextLog == AppendAny
SpecLog == InitLog /\ [][NextLog]_vars

\* append_log called again and again with one max_bytes and one max_files,
\* starting with no file of the chain
InitSeq ==
    /\ WatchInit
    /\ fs = EmptyChain
    /\ last = NoCall
    /\ nCalls = 0
    /\ nFaults = 0
    /\ cfg \in [fixed : {TRUE}, max_bytes : MaxBytesSet, max_files : MaxFilesSet]
    /\ hist = NoHist
    /\ ConcIdle
NextSeq == AppendFixed
SpecSeq == InitSeq /\ [][NextSeq]_vars

\* two calls of append_log at the same time, with one max_bytes and one
\* max_files, on any chain of ConcChains
InitConc ==
    /\ WatchInit
    /\ fs = EmptyChain
    /\ last = NoCall
    /\ nCalls = 0
    /\ nFaults = 0
    /\ cfg \in [fixed : {TRUE}, max_bytes : MaxBytesSet, max_files : MaxFilesSet]
    /\ hist = NoHist
    /\ ConcInit
NextConc ==
    \/ \E p \in Callers : ConcStart(p) /\ UNCHANGED <<watchVars, logVars>>
    \/ \E p \in Callers : ConcExists(p) /\ UNCHANGED <<watchVars, logVars>>
    \/ \E p \in Callers : ConcMetadata(p) /\ UNCHANGED <<watchVars, logVars>>
    \/ \E p \in Callers : ConcFromExists(p) /\ UNCHANGED <<watchVars, logVars>>
    \/ \E p \in Callers : ConcRename(p) /\ UNCHANGED <<watchVars, logVars>>
    \/ \E p \in Callers : ConcOpen(p) /\ UNCHANGED <<watchVars, logVars>>
    \/ \E p \in Callers : ConcWriteLine(p) /\ UNCHANGED <<watchVars, logVars>>
    \/ \E p \in Callers : ConcWriteNewline(p) /\ UNCHANGED <<watchVars, logVars>>
SpecConc == InitConc /\ [][NextConc]_vars

\* the two components side by side
Init == InitLog
Next == NextWatch \/ NextLog
Spec == Init /\ [][Next]_vars

(***************************************************************************)
(* Properties of the watch task (SpecWatch).                               *)
(***************************************************************************)
CreateModifyRemove == {"Create", "Modify", "Remove"}
SpecSuffixes ==
    { <<".", "y", "a", "m", "l">>, <<".", "y", "m", "l">>, <<".", "j", "s", "o", "n">> }

\* the path ends in .yaml, .yml or .json, byte for byte
EndsInSpecSuffix(p) ==
    \E suf \in SpecSuffixes :
        /\ Len(p) >= Len(suf)
        /\ \A k \in 1..Len(suf) : p[Len(p) - Len(suf) + k] = suf[k]

IsUnicode(p) == \A k \in 1..Len(p) : p[k] # InvalidByte
EndsInSpecSuffixUnicode(p) == IsUnicode(p) /\ EndsInSpecSuffix(p)

\* the notifications emitted for one received item
NotifsFor(item) == { j \in 1..Len(notifs) : notifs[j].ev = item.seq }

\* C1 as claimed: every received Create/Modify/Remove event with at least one
\* path ending in .yaml, .yml or .json has exactly one notification, whose
\* payload is the subsequence of its paths with such an ending.
C1_EveryMatchingEventNotified ==
    \A k \in 1..Len(handled) :
        LET e == handled[k]
        IN (/\ e.res = "ok"
            /\ e.kind \in CreateModifyRemove
            /\ \E i \in 1..Len(e.paths) : EndsInSpecSuffix(e.paths[i]))
           => /\ Cardinality(NotifsFor(e)) = 1
              /\ \A j \in NotifsFor(e) :
                    notifs[j].paths = SelectSeq(e.paths, EndsInSpecSuffix)

\* C1 amended: the same, counting only the paths that are valid Unicode: a
\* path that is not is dropped before the suffix test, whatever it ends in.
C1_EveryUnicodeMatchingEventNotified ==
    \A k \in 1..Len(handled) :
        LET e == handled[k]
        IN (/\ e.res = "ok"
            /\ e.kind \in CreateModifyRemove
            /\ \E i \in 1..Len(e.paths) : EndsInSpecSuffixUnicode(e.paths[i]))
           => /\ Cardinality(NotifsFor(e)) = 1
              /\ \A j \in NotifsFor(e) :
                    notifs[j].paths = SelectSeq(e.paths, EndsInSpecSuffixUnicode)

\* a Remove event with a non-matching path between two matching ones has been
\* notified, and so has a Create event whose first path is not valid Unicode
C1_Witness ==
    /\ \E k \in 1..Len(handled), j \in 1..Len(notifs) :
          /\ handled[k].kind = "Remove"
          /\ handled[k].paths = <<pJson, pTxt, pYaml>>
          /\ notifs[j].ev = handled[k].seq
          /\ notifs[j].paths = <<pJson, pYaml>>
    /\ \E k \in 1..Len(handled), j \in 1..Len(notifs) :
          /\ handled[k].kind = "Create"
          /\ handled[k].paths = <<pNonUtf8, pYml>>
          /\ notifs[j].ev = handled[k].seq
          /\ notifs[j].paths = <<pYml>>

\* C2: a received item that is an error, or an event of another kind than
\* Create/Modify/Remove, or an event none of whose paths ends in .yaml, .yml or
\* .json, has no notification; and every notification emitted carries a
\* non-empty list of paths each ending in one of the three suffixes.
C2_NoNotificationForOthers ==
    /\ \A k \in 1..Len(handled) :
          LET e == handled[k]
          IN (\/ e.res # "ok"
              \/ e.kind \notin CreateModifyRemove
              \/ \A i \in 1..Len(e.paths) : ~EndsInSpecSuffix(e.paths[i]))
             => NotifsFor(e) = {}
    /\ \A j \in 1..Len(notifs) :
          /\ notifs[j].paths # <<>>
          /\ \A i \in 1..Len(notifs[j].paths) : EndsInSpecSuffix(notifs[j].paths[i])

\* an Access event on a .yaml path and a Create event on .YML and .yml~ paths
\* have both been received, and nothing was emitted
C2_Witness ==
    /\ \E k \in 1..Len(handled) :
          handled[k].kind = "Access" /\ handled[k].paths = <<pYaml>>
    /\ \E k \in 1..Len(handled) :
          handled[k].kind = "Create" /\ handled[k].paths = <<pUpper, pBak>>
    /\ notifs = <<>>

\* C7 as claimed: when the watcher cannot be constructed or the path cannot be
\* registered, the caller of watch_directory gets an error.
C7_SetupFailureReturnsError ==
    setupErr # "none" => watchRet = "Err"

\* C7 amended: watch_directory never returns an error: it returns Ok as soon as
\* the thread is spawned, before the watcher exists; a failure to construct the
\* watcher or to register the path ends the thread, which then receives and
\* emits nothing, and the caller has got Ok all the same.
C7_SetupFailureIsSilent ==
    /\ watchRet \in {"none", "Ok"}
    /\ pc # "unspawned" => watchRet = "Ok"
    /\ setupErr # "none" =>
          /\ watchRet = "Ok"
          /\ pc = "exited"
          /\ nSent = 0
          /\ handled = <<>>
          /\ notifs = <<>>

\* the registration of the path has failed after the call returned Ok
C7_Witness ==
    setupErr = "register" /\ watchRet = "Ok" /\ pc = "exited"

\* position of the item with sequence number n in the order of reception
HandledPos(n) == CHOOSE k \in 1..Len(handled) : handled[k].seq = n

\* C10: notifications are emitted in the order the watcher sent the events
\* (the sequence numbers) and in the order the loop received them; each is for
\* one received event that passes the filter, and no event has two.
C10_NotificationsInEventOrder ==
    /\ \A j \in 1..Len(notifs) :
          \E k \in 1..Len(handled) :
              /\ handled[k].seq = notifs[j].ev
              /\ handled[k].res = "ok"
              /\ handled[k].kind \in CreateModifyRemove
    /\ \A i, j \in 1..Len(notifs) :
          i < j => /\ notifs[i].ev < notifs[j].ev
                   /\ HandledPos(notifs[i].ev) < HandledPos(notifs[j].ev)

\* two received events have both been notified, with different payloads
C10_Witness ==
    /\ Len(notifs) >= 2
    /\ Len(handled) = 2
    /\ notifs[1].paths # notifs[2].paths

(***************************************************************************)
(* Properties of one call of append_log (SpecLog).                         *)
(***************************************************************************)
Called == last.op = "append"
\* path existed with size >= max_bytes when the call was made
WasFull == Exists(last.pre[0]) /\ Size(last.pre[0]) >= last.max_bytes
NoRenameRefused == \A k \in 1..Len(last.renames) : last.renames[k].ok
SomeRenameRefused == \E k \in 1..Len(last.renames) : ~last.renames[k].ok
RenameDone(from, to) ==
    \E k \in 1..Len(last.renames) :
        last.renames[k].from = from /\ last.renames[k].to = to /\ last.renames[k].ok

\* C3: after a successful call with max_files >= 2 on a path of size >=
\* max_bytes in which no rename was refused, path.1 holds what path held,
\* path.i holds what path.(i-1) held for every 1 < i < max_files whose
\* path.(i-1) existed, no slot exists that neither existed before nor had
\* an existing source, and path holds the line and a newline and nothing else.
C3_RotationShiftsChain ==
    (Called /\ last.ret = "Ok" /\ last.max_files >= 2 /\ WasFull /\ NoRenameRefused)
    => /\ fs[1] = last.pre[0]
       /\ \A i \in 2..(last.max_files - 1) :
             Exists(last.pre[i - 1]) => fs[i] = last.pre[i - 1]
       /\ \A i \in 1..MaxFiles :
             (Exists(fs[i]) /\ ~Exists(last.pre[i]))
                 => (i < last.max_files /\ Exists(last.pre[i - 1]))
       /\ fs[0] = File(last.line \o <<NL>>)

\* a rotation with max_files = 4 has moved path, path.1 and path.2 up by one
C3_Witness ==
    /\ Called /\ last.ret = "Ok" /\ last.max_files = 4 /\ WasFull /\ NoRenameRefused
    /\ Exists(last.pre[1]) /\ Exists(last.pre[2])
    /\ fs[1] = last.pre[0] /\ fs[2] = last.pre[1] /\ fs[3] = last.pre[2]

\* C4: a call that gets past the creation of the directory rotates if and only
\* if path exists with size >= max_bytes, and a rotation with max_files >= 2
\* renames path to path.1; without rotation no rename is tried and every
\* path.i stays as it was; and a successful call without rotation leaves path
\* as its previous content (nothing if it was absent), then the line, then a
\* newline: len(line)+1 bytes more.
C4_RotationOnlyWhenFull ==
    (Called /\ last.fault # "dir")
    => /\ last.rotate <=> WasFull
       /\ (last.rotate /\ last.max_files >= 2)
             => \E k \in 1..Len(last.renames) :
                    last.renames[k].from = 0 /\ last.renames[k].to = 1
       /\ ~WasFull =>
             /\ last.renames = <<>>
             /\ \A i \in 1..MaxFiles : fs[i] = last.pre[i]
             /\ last.ret = "Ok" =>
                   LET before == IF Exists(last.pre[0]) THEN Data(last.pre[0]) ELSE <<>>
                   IN /\ fs[0] = File(before \o last.line \o <<NL>>)
                      /\ Size(fs[0]) = Len(before) + Len(last.line) + 1

\* a line has been appended to a path one byte short of max_bytes
C4_Witness ==
    /\ Called /\ last.ret = "Ok"
    /\ Exists(last.pre[0])
    /\ Size(last.pre[0]) + 1 = last.max_bytes
    /\ Exists(last.pre[1])
    /\ Size(fs[0]) > last.max_bytes

\* C6: after a successful call with max_files = 4 on a path of size >=
\* max_bytes in which no rename was refused, a file that was at path.3 is
\* gone: path.3 does not exist or holds what path.2 held, and no file of the
\* chain holds what path.3 held.
C6_OldestIsGone ==
    (Called /\ last.ret = "Ok" /\ last.max_files = 4 /\ WasFull /\ NoRenameRefused
        /\ Exists(last.pre[3]))
    => /\ ~Exists(fs[3]) \/ fs[3] = last.pre[2]
       /\ \A s \in 0..3 : fs[s] # last.pre[3]

\* C8: when a rename of the rotation is refused, the loop still visits every
\* index from max_files-1 down to 1 and still tries to rename path to path.1;
\* unless the open or the write fails the call returns Ok with the line and a
\* newline at the end of path, after nothing if path was renamed away and
\* after its old content if that rename was refused; and it returns an error
\* only when the open or the write fails.
C8_RenameFailureDoesNotAbort ==
    (Called /\ SomeRenameRefused)
    => /\ last.visited = [k \in 1..(last.max_files - 1) |-> last.max_files - k]
       /\ \E k \in 1..Len(last.renames) :
             last.renames[k].from = 0 /\ last.renames[k].to = 1
       /\ last.fault = "none" =>
             /\ last.ret = "Ok"
             /\ fs[0] = File((IF RenameDone(0, 1) THEN <<>> ELSE Data(last.pre[0]))
                                 \o last.line \o <<NL>>)
       /\ last.ret = "Err" => last.fault \in {"open", "write"}

\* the rename of path.2 to path.3 was refused, the two after it were done and
\* the call returned Ok
C8_Witness ==
    /\ Called /\ last.ret = "Ok" /\ last.max_files = 4
    /\ \E k \in 1..Len(last.renames) :
          last.renames[k].from = 2 /\ ~last.renames[k].ok
    /\ RenameDone(1, 2)
    /\ RenameDone(0, 1)
    /\ fs[3] = last.pre[3]

\* C9: a call whose creation of the parent directory fails returns an error,
\* tries no rename and leaves every file of the chain as it was.
C9_DirFailureAborts ==
    (Called /\ last.fault = "dir")
    => /\ last.ret = "Err"
       /\ last.renames = <<>>
       /\ last.visited = <<>>
       /\ fs = last.pre

\* the directory could not be created for a call that would have rotated
C9_Witness ==
    /\ Called /\ last.fault = "dir" /\ last.ret = "Err"
    /\ WasFull /\ last.max_files >= 2
    /\ fs = last.pre

(***************************************************************************)
(* Properties of a run of calls with one max_bytes and one max_files       *)
(* (SpecSeq).                                                              *)
(***************************************************************************)
ExistingFiles == { s \in Slots : Exists(fs[s]) }

\* C5 as claimed: between calls, at most max_files files of the chain exist,
\* whatever max_files is.
C5_AtMostMaxFiles ==
    cfg.fixed => Cardinality(ExistingFiles) <= cfg.max_files

\* C5 amended: between calls, at most max_files files of the chain exist when
\* max_files >= 1, and they are among path, path.1, .., path.(max_files-1);
\* when max_files = 0 only path ever exists, so one file does.
C5_AtMostMaxFilesOrOne ==
    cfg.fixed =>
        /\ cfg.max_files >= 1 =>
              /\ Cardinality(ExistingFiles) <= cfg.max_files
              /\ ExistingFiles \subseteq 0..(cfg.max_files - 1)
        /\ cfg.max_files = 0 => ExistingFiles \subseteq {0}

\* with max_files = 2 a second rotation has overwritten path.1: two files exist
C5_Witness ==
    /\ cfg.fixed /\ cfg.max_files = 2
    /\ nCalls = 3
    /\ Called /\ last.rotate /\ last.ret = "Ok"
    /\ Exists(last.pre[1]) /\ fs[1] = last.pre[0]
    /\ Cardinality(ExistingFiles) = 2

(***************************************************************************)
(* Properties of the watch loop under fair scheduling (SpecWatchFair).     *)
(***************************************************************************)
InChan(n) == \E k \in 1..Len(chan) : chan[k].seq = n
WasHandled(n) == \E k \in 1..Len(handled) : handled[k].seq = n
\* the received event passes the filter of the loop
Forwardable(e) ==
    /\ e.res = "ok"
    /\ e.kind \in CreateModifyRemove
    /\ \E i \in 1..Len(e.paths) : EndsInSpecSuffixUnicode(e.paths[i])
\* the thread has ended although the setup succeeded and the source is open
\* or has items left
EndedEarly ==
    pc = "exited" /\ setupErr = "none" /\ (~closed \/ chan # <<>>)

\* C11: a delivery error of the source emits nothing and does not end the
\* loop; every event the loop has received, after errors or not, that passes
\* the filter has its notification; a thread whose setup succeeded ends only
\* once the source is closed and the channel drained; every item in the
\* channel is received in the end, and once the source is closed the thread
\* ends.
C11_ErrorsNonFatalEndsOnClose ==
    /\ [](/\ \A k \in 1..Len(handled) :
                /\ handled[k].res = "err" => NotifsFor(handled[k]) = {}
                /\ Forwardable(handled[k]) => Cardinality(NotifsFor(handled[k])) = 1
          /\ ~EndedEarly)
    /\ \A n \in 1..MaxEvents : InChan(n) ~> WasHandled(n)
    /\ (closed /\ setupErr = "none") ~> (pc = "exited")

\* an error was received first, the event after it was notified, and the
\* thread ended once the source had closed
C11_Witness ==
    /\ Len(handled) = 2
    /\ handled[1].res = "err"
    /\ Forwardable(handled[2])
    /\ NotifsFor(handled[2]) # {}
    /\ closed /\ pc = "exited"

\* C12: a notification whose delivery failed was emitted once and never
\* again, no item is put back in the channel for it, the thread does not end
\* because of it, every received event that passes the filter still has its
\* notification, and every item in the channel is received in the end.
C12_FailedDeliverySwallowed ==
    /\ []((\E j \in 1..Len(notifs) : ~notifs[j].delivered)
            => /\ \A k \in 1..Len(handled) :
                     /\ Cardinality(NotifsFor(handled[k])) <= 1
                     /\ ~InChan(handled[k].seq)
                     /\ Forwardable(handled[k]) => NotifsFor(handled[k]) # {}
               /\ ~EndedEarly)
    /\ \A n \in 1..MaxEvents : InChan(n) ~> WasHandled(n)

\* the delivery of the first notification failed and the event sent after it
\* was received and notified all the same
C12_Witness ==
    /\ Len(notifs) = 2
    /\ ~notifs[1].delivered
    /\ notifs[2].delivered
    /\ notifs[1].ev < notifs[2].ev
    /\ pc = "loop"

(***************************************************************************)
(* More properties of one call of append_log (SpecLog).                    *)
(***************************************************************************)
\* some file of the chain starts with what slot s held before the call
HeldAfter(s) ==
    LET d == Data(last.pre[s])
    IN \E t \in Slots :
          /\ Exists(fs[t])
          /\ Size(fs[t]) >= Len(d)
          /\ SubSeq(Data(fs[t]), 1, Len(d)) = d
RefusedFrom(s) ==
    \E k \in 1..Len(last.renames) : last.renames[k].from = s /\ ~last.renames[k].ok
OneRenameRefused ==
    Cardinality({ k \in 1..Len(last.renames) : ~last.renames[k].ok }) = 1

\* C16: in a rotation in which no rename is refused, on any chain, a rename
\* whose target exists when it is made has the last slot path.(max_files-1)
\* as its target, and what every other slot of the chain held before the call
\* is held by some file after it.
C16_OnlyLastSlotOverwritten ==
    (Called /\ last.rotate /\ NoRenameRefused)
    => /\ \A k \in 1..Len(last.renames) :
             last.renames[k].over => last.renames[k].to = last.max_files - 1
       /\ \A s \in 0..(last.max_files - 2) :
             Exists(last.pre[s]) => HeldAfter(s)

\* a rotation on a chain with path.1 missing has overwritten path.3 with
\* path.2 and has moved path to path.1
C16_Witness ==
    /\ Called /\ last.rotate /\ NoRenameRefused /\ last.max_files = 4
    /\ Exists(last.pre[0]) /\ ~Exists(last.pre[1])
    /\ Exists(last.pre[2]) /\ Exists(last.pre[3])
    /\ \E k \in 1..Len(last.renames) : last.renames[k].over /\ last.renames[k].to = 3
    /\ fs[3] = last.pre[2] /\ fs[1] = last.pre[0] /\ ~Exists(fs[2])

\* C19 as claimed: when exactly one rename of a rotation is refused, what
\* every slot but the last held before the call is held by some file after it.
C19_OneFailureLosesNothing ==
    (Called /\ last.rotate /\ OneRenameRefused)
    => \A s \in 0..(last.max_files - 2) :
          Exists(last.pre[s]) => HeldAfter(s)

\* C19 amended: when exactly one rename of a rotation is refused, what a slot
\* but the last held before the call is held by some file after it, except
\* for the source path.j (j >= 1) of the refused rename when path.(j-1)
\* existed: the next turn of the loop renames path.(j-1) onto it.  A refused
\* rename of path to path.1 loses nothing.
C19_OneFailureLosesItsSource ==
    (Called /\ last.rotate /\ OneRenameRefused)
    => \A s \in 0..(last.max_files - 2) :
          Exists(last.pre[s])
             => (HeldAfter(s) <=> ~(s >= 1 /\ RefusedFrom(s) /\ Exists(last.pre[s - 1])))

\* the rename of path.1 to path.2 was refused and path was then renamed onto
\* path.1: what path.1 held is in no file
C19_Witness ==
    /\ Called /\ last.rotate /\ OneRenameRefused /\ last.max_files = 4
    /\ RefusedFrom(1)
    /\ Exists(last.pre[2])
    /\ fs[1] = last.pre[0]
    /\ ~HeldAfter(1)
    /\ HeldAfter(2)

(***************************************************************************)
(* More properties of repeated calls with one max_bytes and one max_files  *)
(* (SpecSeq).  An append is a call that returned Ok.                       *)
(***************************************************************************)
\* the bytes of a sequence of lines as writeln! writes them
RECURSIVE Flatten(_)
Flatten(lines) ==
    IF lines = <<>> THEN <<>> ELSE LineBytes(Head(lines)) \o Flatten(Tail(lines))

\* the files of the chain from slot s down to path, one after the other
Bytes(f) == IF Exists(f) THEN Data(f) ELSE <<>>
RECURSIVE ConcatDown(_, _)
ConcatDown(chain, s) ==
    IF s = 0 THEN Bytes(chain[0]) ELSE Bytes(chain[s]) \o ConcatDown(chain, s - 1)
ChainConcat == ConcatDown(fs, MaxFiles)

NoGaps == \A s \in 1..MaxFiles : Exists(fs[s]) => Exists(fs[s - 1])
AllCallsOk == nFaults = 0
IsPrefix(d, e) == Len(d) <= Len(e) /\ SubSeq(e, 1, Len(d)) = d

\* C15: with max_files 0 or 1 no call renames anything, however large path
\* is: no path.i ever exists, a call never takes bytes away from path, and
\* after any sequence of appends path holds exactly the appended lines, each
\* with its newline, in order.
C15_NoRotationBelowTwoFiles ==
    /\ [](cfg.max_files <= 1
            => /\ last.renames = <<>>
               /\ \A s \in 1..MaxFiles : ~Exists(fs[s])
               /\ (AllCallsOk /\ nCalls >= 1) => fs[0] = File(Flatten(hist.lines)))
    /\ [][(cfg.max_files <= 1 /\ Exists(fs[0]))
            => (Exists(fs'[0]) /\ IsPrefix(Data(fs[0]), Data(fs'[0])))]_vars

\* three lines appended with max_files = 1: the third call found path larger
\* than max_bytes, asked for a rotation and appended all the same
C15_Witness ==
    /\ cfg.max_files = 1 /\ cfg.max_bytes = 2
    /\ Len(hist.lines) = 3 /\ AllCallsOk
    /\ last.rotate /\ Size(last.pre[0]) > cfg.max_bytes
    /\ Size(fs[0]) = Size(last.pre[0]) + Len(last.line) + 1

\* C17: with max_files >= 2 and max_bytes >= 1 and no rename ever refused,
\* after every append path is smaller than max_bytes + len(line) + 1, line
\* being the line just appended.
C17_LiveFileBounded ==
    (Called /\ last.ret = "Ok" /\ cfg.max_files >= 2 /\ cfg.max_bytes >= 1 /\ ~hist.refused)
    => Size(fs[0]) < cfg.max_bytes + Len(last.line) + 1

\* the largest size the bound allows: path was one byte below max_bytes
C17_Witness ==
    /\ Called /\ last.ret = "Ok" /\ cfg.max_files >= 2 /\ cfg.max_bytes = 3
    /\ ~hist.refused /\ ~last.rotate
    /\ Exists(last.pre[0]) /\ Size(last.pre[0]) = cfg.max_bytes - 1
    /\ Size(fs[0]) = cfg.max_bytes + Len(last.line)

\* C18: with max_files >= 2, no rename ever refused and every call an
\* append, the chain has no gap and its files, read from the highest index
\* down to path, are exactly the last lines appended, in append order.
C18_ChainIsSuffixOfAppends ==
    (cfg.max_files >= 2 /\ ~hist.refused /\ AllCallsOk)
    => /\ NoGaps
       /\ \E k \in 0..Len(hist.lines) :
             ChainConcat = Flatten(SubSeq(hist.lines, k + 1, Len(hist.lines)))

\* three appends with max_files = 2 and max_bytes = 0: the first line is
\* gone, path.1 holds the second and path the third
C18_Witness ==
    /\ cfg.max_files = 2 /\ cfg.max_bytes = 0 /\ ~hist.refused /\ AllCallsOk
    /\ Len(hist.lines) = 3 /\ hist.lines[2] # hist.lines[3]
    /\ fs[1] = File(LineBytes(hist.lines[2]))
    /\ fs[0] = File(LineBytes(hist.lines[3]))
    /\ ChainConcat = Flatten(SubSeq(hist.lines, 2, 3))

(***************************************************************************)
(* Properties of two calls at the same time (SpecConc).                    *)
(***************************************************************************)
BothDone == \A p \in Callers : callers[p].pc = "done" /\ callers[p].ret = "Ok"

\* the chain after the call of p and then the call of q, one after the other
SeqResult(p, q) ==
    LET first == AppendResult(chain0, callers[p].line, cfg.max_bytes, cfg.max_files,
                              {}, "none", 0).chain
    IN AppendResult(first, callers[q].line, cfg.max_bytes, cfg.max_files,
                    {}, "none", 0).chain

\* sub occurs in d as consecutive bytes
Contains(d, sub) ==
    \E j \in 0..(Len(d) - Len(sub)) : SubSeq(d, j + 1, j + Len(sub)) = sub
\* the line of p, with its newline, is in some file of the chain
LinePresent(p) ==
    \E s \in Slots : dir[s] # 0 /\ Contains(inodes[dir[s]], LineBytes(callers[p].line))
\* the file p wrote to is still a file of the chain
FileKept(p) == \E s \in Slots : dir[s] = callers[p].fd

\* a file a call has written to is never unlinked by the other call: two
\* calls make at most one rename onto the last slot after it was opened
WrittenFilesKept == BothDone => \A p \in Callers : FileKept(p)

\* C14: nothing excludes two calls from each other: a call that has not
\* returned can always take its next step, wherever the other call is; only
\* when a call starts after the other has returned is the final chain the
\* one of that sequential order.
C14_NoMutualExclusion ==
    /\ \A p \in Callers : callers[p].pc # "done" => ENABLED ConcStep(p)
    /\ \A p \in Callers, q \in Callers :
          (p # q /\ BothDone /\ callers[q].after) => ConcChain = SeqResult(p, q)

\* both calls saw path full and both renamed; every line is whole, and the
\* final chain is the chain of neither sequential order
C14_Witness ==
    /\ BothDone
    /\ \A p \in Callers : callers[p].rotate /\ callers[p].renamed >= 1 /\ LinePresent(p)
    /\ ConcChain # SeqResult(1, 2)
    /\ ConcChain # SeqResult(2, 1)

\* C20: with max_files >= 2, once both concurrent calls have returned Ok the
\* line of each, with its newline, is in some file of the chain.
C20_NoAppendedLineLost ==
    (cfg.max_files >= 2 /\ BothDone) => \A p \in Callers : LinePresent(p)

====
